---- MODULE Spec2Model ----
(***************************************************************************)
(* Model of the Flipkart product scraper (src/flipkart_scraper.py):        *)
(* field extraction over one listing container, the page scraper, the      *)
(* paginated search loop, the sqlite batch insert and the run orchestrator *)
(* with its guaranteed close of the WebDriver session.                     *)
(*                                                                         *)
(* Text is a sequence of one-character strings.  A markup element that a   *)
(* find() call returns is [found |-> TRUE, text |-> raw text]; a find()    *)
(* that matches nothing returns NoElem.  A Python dict is a function whose *)
(* domain is the set of keys that were assigned.  An Optional value is a   *)
(* sequence of length 0 (None) or 1.                                       *)
(***************************************************************************)
EXTENDS Integers, Sequences, FiniteSets, TLC

VARIABLES
    \* ---- one container under extraction (SpecExtract) ----
    container,      \* the listing container handed to extract_product_info
    extracted,      \* <<"pending">> or <<"done", Optional product>>
    \* ---- one page under scrape_page (SpecPage) ----
    page,           \* [containers, fault]: what the driver renders for the url
    scraped,        \* <<"pending">> or <<"done", products>>
    \* ---- one process running main() / run_scraper (Spec) ----
    pc,             \* position of the process
    driver,         \* "none" | "open" | "quit": the WebDriver session
    rows,           \* table product_info, in id order
    max_pages,      \* argument of run_scraper / search_products
    requested,      \* what the caller asked for, before any clamp
    via_main,       \* TRUE iff run_scraper was called by main()
    page_num,       \* loop variable of search_products
    all_products,   \* aggregate of search_products
    page_results,   \* per requested page, the list scrape_page returned
    delays,         \* number of time.sleep(2) taken in search_products
    products,       \* value search_products returned to run_scraper
    last_batch,     \* what the last insert_products_batch did
    count_fault,    \* TRUE iff get_product_count hit sqlite3.Error
    result,         \* Optional dict returned by run_scraper
    exc,            \* exception leaving run_scraper: "none" | name
    runs,           \* number of processes started so far
    titleless_seen  \* TRUE iff a container of this run yielded no record

extract_vars == <<container, extracted>>
page_vars    == <<page, scraped>>
run_vars     == <<pc, driver, rows, max_pages, requested, via_main, page_num,
                  all_products, page_results, delays, products, last_batch,
                  count_fault, result, exc, runs, titleless_seen>>
vars == <<container, extracted, page, scraped, pc, driver, rows, max_pages,
          requested, via_main, page_num, all_products, page_results, delays,
          products, last_batch, count_fault, result, exc, runs,
          titleless_seen>>

(***************************************************************************)
(* Bounds                                                                  *)
(***************************************************************************)
MaxContainers == 3      \* containers on one page in SpecPage
MaxReq == 4             \* largest max_pages a caller asks for
MaxRuns == 1            \* processes started one after the other

(***************************************************************************)
(* Program constants                                                       *)
(***************************************************************************)
PageCeiling == 3        \* min(max_pages, 3)
DefaultMaxPages == 3    \* empty or non-numeric input

(***************************************************************************)
(* Text and markup                                                         *)
(***************************************************************************)
Space == " "

RECURSIVE LStrip(_)
LStrip(s) == IF s # <<>> /\ Head(s) = Space THEN LStrip(Tail(s)) ELSE s

RECURSIVE RStrip(_)
RStrip(s) == IF s # <<>> /\ s[Len(s)] = Space
             THEN RStrip(SubSeq(s, 1, Len(s) - 1)) ELSE s

\* get_text(strip=True) of an element holding one text node
GetTextStrip(elem) == RStrip(LStrip(elem.text))

NoElem == [found |-> FALSE, text |-> <<>>]
Elem(t) == [found |-> TRUE, text |-> t]

\* Python's `a or b` on bs4 results: a Tag is always truthy, None is falsy
Or(a, b) == IF a.found THEN a ELSE b

\* dict.get(key): Optional value
Get(d, key) == IF key \in DOMAIN d THEN <<d[key]>> ELSE <<>>

\* truthiness of dict.get(key): present and not the empty string
Truthy(opt) == opt # <<>> /\ opt[1] # <<>>

\* d[key] = val
Put(d, key, val) == [k \in (DOMAIN d) \cup {key} |-> IF k = key THEN val ELSE d[k]]

EmptyDict == [k \in {} |-> <<>>]

base_url == <<"https:", "www.flipkart.com">>

\* img_src.startswith('http')
StartsWithHttp(src) == src # <<>> /\ src[1] \in {"https:", "http:"}

\* urljoin(base_url, src) for a root-relative or empty reference
urljoin(base, src) == base \o src

(***************************************************************************)
(* extract_product_info                                                    *)
(***************************************************************************)
\* the title element the chain settles on
TitleElemFirstNonEmpty(c) ==
    LET cands == <<c.KzDlHZ, c.wjcEIp, c.WKTcLC, c.legacy4rR01T>>
        hits == {i \in 1..4 : cands[i].found /\ GetTextStrip(cands[i]) # <<>>}
    IN IF hits = {} THEN NoElem
       ELSE cands[CHOOSE i \in hits : \A j \in hits : i <= j]

TitleElem(c) ==
    LET title_elem == Or(c.KzDlHZ, Or(c.wjcEIp, c.WKTcLC))
    IN IF title_elem.found THEN title_elem ELSE c.legacy4rR01T

WithTitle(product, c) ==
    LET title_elem == TitleElem(c)
    IN IF title_elem.found
       THEN Put(product, "title", GetTextStrip(title_elem))
       ELSE product

WithImage(product, c) ==
    IF c.img.found
    THEN LET img_src == IF c.img.src # <<>> THEN c.img.src ELSE c.img.data_src
         IN IF img_src # <<>>
            THEN Put(product, "image_url",
                     IF StartsWithHttp(img_src) THEN img_src
                     ELSE urljoin(base_url, img_src))
            ELSE product
    ELSE product

WithPrice(product, c) ==
    LET price_elem == Or(c.Nx9bqj, Or(c.p30jeq3, c.p1WHN1))
    IN IF price_elem.found
       THEN Put(product, "price", GetTextStrip(price_elem))
       ELSE product

\* Optional product; a container whose probing raises yields None
extract_product_info(c) ==
    IF c.raises THEN <<>>
    ELSE LET product == WithPrice(WithImage(WithTitle(EmptyDict, c), c), c)
         IN IF Truthy(Get(product, "title")) THEN <<product>> ELSE <<>>

validate_product(product) == Truthy(Get(product, "title"))

(***************************************************************************)
(* scrape_page                                                             *)
(***************************************************************************)
\* the loop over product_containers: extract, validate, append
RECURSIVE Collect(_)
Collect(cs) ==
    IF cs = <<>> THEN <<>>
    ELSE LET product == extract_product_info(Head(cs))
         IN IF product # <<>> /\ validate_product(product[1])
            THEN <<product[1]>> \o Collect(Tail(cs))
            ELSE Collect(Tail(cs))

\* the handlers of scrape_page: which faults leave the function
ScrapeRaisesOnlyTimeoutCaught(kind) == kind = "error"

ScrapeRaises(kind) == FALSE

\* page.fault = [kind, after]: "timeout" is raised by WebDriverWait.until,
\* "error" is any other Exception raised inside the try block once `after`
\* containers have been processed (0: in get, page_source, the parser or
\* find_all)
scrape_page(p) ==
    [raised   |-> ScrapeRaises(p.fault.kind),
     products |-> IF p.fault.kind = "none" THEN Collect(p.containers)
                  ELSE IF p.fault.kind = "timeout" THEN <<>>
                  ELSE Collect(SubSeq(p.containers, 1, p.fault.after))]

(***************************************************************************)
(* Inputs                                                                  *)
(***************************************************************************)
TextA == <<" ", "A", " ">>
TextB == <<"B">>
Blank == <<" ">>

ElemTexts == {NoElem, Elem(<<>>), Elem(Blank), Elem(TextA), Elem(TextB)}

NoImg == [found |-> FALSE, src |-> <<>>, data_src |-> <<>>]
Img(src, data_src) == [found |-> TRUE, src |-> src, data_src |-> data_src]
AbsSrc == <<"https:", "cdn.example", "/a.jpg">>
RelSrc == <<"/b.jpg">>

ImgVals == {NoImg, Img(AbsSrc, <<>>), Img(<<>>, RelSrc)}

PriceText == <<"9">>

\* every container SpecExtract probes
Containers ==
    [KzDlHZ : ElemTexts, wjcEIp : ElemTexts, WKTcLC : ElemTexts,
     legacy4rR01T : ElemTexts, img : ImgVals,
     Nx9bqj : {NoElem}, p30jeq3 : {NoElem, Elem(PriceText)}, p1WHN1 : {NoElem},
     raises : BOOLEAN]

Tile(t1, t2, t4, img, price, raises) ==
    [KzDlHZ |-> t1, wjcEIp |-> t2, WKTcLC |-> NoElem, legacy4rR01T |-> t4,
     img |-> img, Nx9bqj |-> price, p30jeq3 |-> NoElem, p1WHN1 |-> NoElem,
     raises |-> raises]

cFull       == Tile(Elem(TextA), NoElem, NoElem, Img(AbsSrc, <<>>), Elem(PriceText), FALSE)
cTitleOnly  == Tile(NoElem, NoElem, Elem(TextB), NoImg, NoElem, FALSE)
cBlankTitle == Tile(Elem(Blank), Elem(TextA), NoElem, NoImg, Elem(PriceText), FALSE)
cNoTitle    == Tile(NoElem, NoElem, NoElem, Img(<<>>, RelSrc), Elem(PriceText), FALSE)
cRaises     == Tile(Elem(TextA), NoElem, NoElem, NoImg, NoElem, TRUE)

SampleContainers == {cFull, cTitleOnly, cBlankTitle, cNoTitle, cRaises}

SeqsUpTo(S, n) == UNION {[1..k -> S] : k \in 0..n}

FaultsOf(cs) ==
    {[kind |-> "none", after |-> 0], [kind |-> "timeout", after |-> 0]}
    \cup {[kind |-> "error", after |-> k] :
            k \in 0..(IF Len(cs) = 0 THEN 0 ELSE Len(cs) - 1)}

\* every page SpecPage scrapes
Pages ==
    UNION {{[containers |-> cs, fault |-> f] : f \in FaultsOf(cs)} :
             cs \in SeqsUpTo(SampleContainers, MaxContainers)}

(***************************************************************************)
(* Values of the variables a specification does not use                    *)
(***************************************************************************)
NoBatch == [n |-> 0, before |-> 0, ret |-> 0, fault |-> "none", at |-> 0]

ExtractIdle == container = cNoTitle /\ extracted = <<"pending">>

PageIdle == page = [containers |-> <<>>, fault |-> [kind |-> "none", after |-> 0]]
            /\ scraped = <<"pending">>

RunIdle ==
    /\ pc = "idle" /\ driver = "none" /\ rows = <<>>
    /\ max_pages = 0 /\ requested = 0 /\ via_main = FALSE
    /\ page_num = 1 /\ all_products = <<>> /\ page_results = <<>>
    /\ delays = 0 /\ products = <<>> /\ last_batch = NoBatch
    /\ count_fault = FALSE /\ result = <<>> /\ exc = "none" /\ runs = 0
    /\ titleless_seen = FALSE

(***************************************************************************)
(* SpecExtract: extract_product_info applied to every container            *)
(***************************************************************************)
InitExtract ==
    /\ container \in Containers
    /\ extracted = <<"pending">>
    /\ PageIdle /\ RunIdle

Extract ==
    /\ extracted = <<"pending">>
    /\ extracted' = <<"done", extract_product_info(container)>>
    /\ UNCHANGED <<container, page_vars, run_vars>>

SpecExtract == InitExtract /\ [][Extract]_vars

(***************************************************************************)
(* SpecPage: scrape_page applied to every page                             *)
(***************************************************************************)
InitPage ==
    /\ page \in Pages
    /\ scraped = <<"pending">>
    /\ ExtractIdle /\ RunIdle

Scrape ==
    /\ scraped = <<"pending">>
    /\ scraped' = <<"done", scrape_page(page)>>
    /\ UNCHANGED <<page, extract_vars, run_vars>>

SpecPage == InitPage /\ [][Scrape]_vars

(***************************************************************************)
(* DatabaseManager                                                         *)
(***************************************************************************)
\* dict.get(key, default)
GetOr(d, key, default) == IF key \in DOMAIN d THEN d[key] ELSE default

\* the row one INSERT adds; id is assigned by the store
RowWrongKey(product, id) ==
    [id |-> id, title |-> GetOr(product, "name", <<>>),
     image_url |-> GetOr(product, "image_url", <<>>),
     price |-> GetOr(product, "price", <<>>)]

Row(product, id) ==
    [id |-> id, title |-> GetOr(product, "title", <<>>),
     image_url |-> GetOr(product, "image_url", <<>>),
     price |-> GetOr(product, "price", <<>>)]

\* the table after the first k products of the batch have been inserted
Inserted(rws, prods, k) ==
    rws \o [i \in 1..k |-> Row(prods[i], Len(rws) + i)]

\* leaving the `with sqlite3.connect(...)` block on an exception rolls the
\* open transaction back
NoRollback(before, dirty) == dirty

Rollback(before, dirty) == before

\* the except clause of insert_products_batch: does sqlite3.Error leave it
BatchRaises(kind) == FALSE

\* fault = [kind, at]: "connect" (sqlite3.connect fails), "write" (the
\* execute of product number `at` fails), "commit" (conn.commit fails)
insert_products_batch(rws, prods, fault) ==
    LET n == Len(prods)
    IN  [raised |-> BatchRaises(fault.kind),
         rows |-> IF fault.kind = "none" THEN Inserted(rws, prods, n)
                  ELSE IF fault.kind = "connect" THEN rws
                  ELSE IF fault.kind = "write"
                       THEN Rollback(rws, Inserted(rws, prods, fault.at - 1))
                  ELSE Rollback(rws, Inserted(rws, prods, n)),
         inserted_count |-> IF fault.kind \in {"none", "commit"} THEN n
                            ELSE IF fault.kind = "write" THEN fault.at - 1
                            ELSE 0]

BatchFaults(prods) ==
    {[kind |-> k, at |-> 0] : k \in {"none", "connect", "commit"}}
    \cup {[kind |-> "write", at |-> i] : i \in 1..Len(prods)}

\* the except clause of get_product_count
CountRaisesOnFault(fault) == fault

CountRaises(fault) == FALSE

get_product_count(rws, fault) ==
    [raised |-> CountRaises(fault), count |-> IF fault THEN 0 ELSE Len(rws)]

(***************************************************************************)
(* main, run_scraper, search_products, close                               *)
(***************************************************************************)
\* what the user types at "Enter max pages to scrape"
MaxPagesInputs ==
    {[kind |-> "empty", n |-> 0], [kind |-> "text", n |-> 0]}
    \cup {[kind |-> "int", n |-> i] : i \in (-1)..MaxReq}

NoClamp(n) == n

\* min(max_pages, 3)
ClampMaxPages(n) == IF n < PageCeiling THEN n ELSE PageCeiling

\* int(max_pages_input) if max_pages_input else 3, then the clamp;
\* ValueError gives 3
ParseMaxPages(input) ==
    IF input.kind = "text" THEN DefaultMaxPages
    ELSE IF input.kind = "empty" THEN ClampMaxPages(DefaultMaxPages)
    ELSE ClampMaxPages(input.n)

Requested(input) == IF input.kind = "int" THEN input.n ELSE DefaultMaxPages

\* the pages the site serves during a run
PipelinePages ==
    {[containers |-> <<>>, fault |-> [kind |-> "none", after |-> 0]],
     [containers |-> <<cFull>>, fault |-> [kind |-> "timeout", after |-> 0]],
     [containers |-> <<cBlankTitle, cRaises>>, fault |-> [kind |-> "none", after |-> 0]],
     [containers |-> <<cNoTitle, cFull>>, fault |-> [kind |-> "none", after |-> 0]],
     [containers |-> <<cNoTitle, cFull, cTitleOnly>>, fault |-> [kind |-> "error", after |-> 2]],
     [containers |-> <<cTitleOnly, cBlankTitle, cFull>>, fault |-> [kind |-> "none", after |-> 0]]}

\* the containers scrape_page got to
Processed(p) ==
    IF p.fault.kind = "none" THEN p.containers
    ELSE IF p.fault.kind = "timeout" THEN <<>>
    ELSE SubSeq(p.containers, 1, p.fault.after)

Titleless(p) ==
    \E i \in 1..Len(Processed(p)) : extract_product_info(Processed(p)[i]) = <<>>

\* `if products: ... else: ... break`
NeverBreak(ps) == FALSE

BreakOnEmpty(ps) == ps = <<>>

\* `if self.driver: self.driver.quit()`
CloseForgotten(d) == d

close(d) == IF d # "none" THEN "quit" ELSE d

\* FlipkartScraper(): DatabaseManager.init_database, then setup_driver
Setups == {"ok", "schema_fault", "driver_fault"}

Enter(mp, req, by_main, setup) ==
    /\ runs' = runs + 1
    /\ max_pages' = mp /\ requested' = req /\ via_main' = by_main
    /\ page_num' = 1 /\ all_products' = <<>> /\ page_results' = <<>>
    /\ delays' = 0 /\ products' = <<>> /\ last_batch' = NoBatch
    /\ count_fault' = FALSE /\ result' = <<>> /\ titleless_seen' = FALSE
    /\ IF setup = "ok"
       THEN driver' = "open" /\ pc' = "search" /\ exc' = "none"
       ELSE driver' = "none" /\ pc' = "crashed" /\ exc' = setup
    /\ UNCHANGED <<rows, extract_vars, page_vars>>

\* main(): read the input, clamp, construct the scraper, call run_scraper
Main ==
    /\ pc = "idle"
    /\ runs < MaxRuns
    /\ \E input \in MaxPagesInputs, setup \in Setups :
         Enter(ParseMaxPages(input), Requested(input), TRUE, setup)

\* a caller of the class: FlipkartScraper().run_scraper(keyword, mp)
CallRunScraper ==
    /\ pc = "idle"
    /\ runs < MaxRuns
    /\ \E mp \in 0..MaxReq, setup \in Setups : Enter(mp, mp, FALSE, setup)

\* one iteration of the loop of search_products
SearchPage ==
    /\ pc = "search"
    /\ page_num <= max_pages
    /\ \E p \in PipelinePages :
         LET out == scrape_page(p)
         IN  IF out.raised
             THEN /\ exc' = "Exception" /\ pc' = "finally"
                  /\ UNCHANGED <<page_num, all_products, page_results, delays,
                                 products, titleless_seen>>
             ELSE /\ page_results' = Append(page_results, out.products)
                  /\ titleless_seen' = (titleless_seen \/ Titleless(p))
                  /\ IF BreakOnEmpty(out.products)
                     THEN /\ products' = all_products
                          /\ pc' = "save"
                          /\ UNCHANGED <<page_num, all_products, delays>>
                     ELSE /\ all_products' = all_products \o out.products
                          /\ delays' = delays + 1
                          /\ page_num' = page_num + 1
                          /\ UNCHANGED <<pc, products>>
                  /\ exc' = exc
    /\ UNCHANGED <<driver, rows, max_pages, requested, via_main, last_batch,
                   count_fault, result, runs, extract_vars, page_vars>>

\* the loop of search_products is exhausted: return all_products
SearchReturn ==
    /\ pc = "search"
    /\ page_num > max_pages
    /\ products' = all_products
    /\ pc' = "save"
    /\ UNCHANGED <<driver, rows, max_pages, requested, via_main, page_num,
                   all_products, page_results, delays, last_batch, count_fault,
                   result, exc, runs, titleless_seen, extract_vars, page_vars>>

\* save_products
SaveProducts ==
    /\ pc = "save"
    /\ IF products = <<>>
       THEN /\ pc' = "count"
            /\ UNCHANGED <<rows, last_batch, exc>>
       ELSE \E fault \in BatchFaults(products) :
              LET out == insert_products_batch(rows, products, fault)
              IN  /\ rows' = out.rows
                  /\ last_batch' = [n |-> Len(products), before |-> Len(rows),
                                    ret |-> out.inserted_count,
                                    fault |-> fault.kind, at |-> fault.at]
                  /\ IF out.raised
                     THEN exc' = "sqlite3.Error" /\ pc' = "finally"
                     ELSE exc' = exc /\ pc' = "count"
    /\ UNCHANGED <<driver, max_pages, requested, via_main, page_num,
                   all_products, page_results, delays, products, count_fault,
                   result, runs, titleless_seen, extract_vars, page_vars>>

\* get_product_count, then the result dict
GetProductCount ==
    /\ pc = "count"
    /\ \E fault \in BOOLEAN :
         LET out == get_product_count(rows, fault)
         IN  /\ count_fault' = fault
             /\ IF out.raised
                THEN exc' = "sqlite3.Error" /\ result' = result
                ELSE /\ exc' = exc
                     /\ result' = <<[scraped |-> Len(products),
                                     saved |-> last_batch.ret,
                                     total_in_db |-> out.count]>>
    /\ pc' = "finally"
    /\ UNCHANGED <<driver, rows, max_pages, requested, via_main, page_num,
                   all_products, page_results, delays, products, last_batch,
                   runs, titleless_seen, extract_vars, page_vars>>

\* KeyboardInterrupt delivered while the try body of run_scraper runs; a
\* transaction that is open at that moment is rolled back
Interrupt ==
    /\ pc \in {"search", "save", "count"}
    /\ exc' = "KeyboardInterrupt"
    /\ pc' = "finally"
    /\ UNCHANGED <<driver, rows, max_pages, requested, via_main, page_num,
                   all_products, page_results, delays, products, last_batch,
                   count_fault, result, runs, titleless_seen, extract_vars,
                   page_vars>>

\* the finally clause of run_scraper, then control is back at the caller
Finally ==
    /\ pc = "finally"
    /\ driver' = close(driver)
    /\ pc' = "returned"
    /\ UNCHANGED <<rows, max_pages, requested, via_main, page_num,
                   all_products, page_results, delays, products, last_batch,
                   count_fault, result, exc, runs, titleless_seen,
                   extract_vars, page_vars>>

\* the process ends: main() prints the result and closes the scraper again;
\* nothing of the process but the database file outlives it
Exit ==
    /\ pc \in {"returned", "crashed"}
    /\ pc' = "idle"
    /\ driver' = "none"
    /\ max_pages' = 0 /\ requested' = 0 /\ via_main' = FALSE
    /\ page_num' = 1 /\ all_products' = <<>> /\ page_results' = <<>>
    /\ delays' = 0 /\ products' = <<>> /\ last_batch' = NoBatch
    /\ count_fault' = FALSE /\ result' = <<>> /\ exc' = "none"
    /\ titleless_seen' = FALSE
    /\ UNCHANGED <<rows, runs, extract_vars, page_vars>>

\* the database file a process finds: new, or left by an earlier process
InitialStores ==
    {<<>>,
     <<[id |-> 1, title |-> <<"A">>, image_url |-> AbsSrc, price |-> PriceText]>>}

Init ==
    /\ ExtractIdle /\ PageIdle
    /\ pc = "idle" /\ driver = "none" /\ rows \in InitialStores
    /\ max_pages = 0 /\ requested = 0 /\ via_main = FALSE
    /\ page_num = 1 /\ all_products = <<>> /\ page_results = <<>>
    /\ delays = 0 /\ products = <<>> /\ last_batch = NoBatch
    /\ count_fault = FALSE /\ result = <<>> /\ exc = "none" /\ runs = 0
    /\ titleless_seen = FALSE

Next ==
    \/ Main
    \/ CallRunScraper
    \/ SearchPage
    \/ SearchReturn
    \/ SaveProducts
    \/ GetProductCount
    \/ Interrupt
    \/ Finally
    \/ Exit

Spec == Init /\ [][Next]_vars

(***************************************************************************)
(* Properties                                                              *)
(***************************************************************************)
RECURSIVE Flatten(_)
Flatten(ss) == IF ss = <<>> THEN <<>> ELSE Head(ss) \o Flatten(Tail(ss))

\* number of pages search_products has requested in this run
Fetches == Len(page_results)

SearchReturned == pc \in {"save", "count"}

\* C1: once a page yields zero records no later page is requested (the
\* empty page is the last one requested; pages are requested in the order
\* 1, 2, ...), and search returns exactly the records of the pages before it
C1_StopOnEmpty ==
    /\ \A i \in 1..Fetches : page_results[i] = <<>> => i = Fetches
    /\ pc = "search" => page_num = Fetches + 1
    /\ SearchReturned /\ Fetches > 0 /\ page_results[Fetches] = <<>>
         => products = Flatten(SubSeq(page_results, 1, Fetches - 1))

C1_Witness ==
    /\ pc = "save"
    /\ Fetches = 2 /\ Fetches < max_pages
    /\ page_results[1] # <<>> /\ page_results[2] = <<>>
    /\ products = page_results[1]

\* C2 as stated: whatever max_pages run/search is handed, at most 3 pages
\* are fetched
C2_Original == Fetches <= PageCeiling

\* C2 amended: the clamp is main()'s: a run started by main has
\* max_pages <= 3 and fetches at most 3 pages whatever was entered; search
\* itself fetches at most max_pages pages
C2_ClampInMain ==
    /\ via_main => max_pages <= PageCeiling /\ Fetches <= PageCeiling
    /\ Fetches <= (IF max_pages < 0 THEN 0 ELSE max_pages)

C2_Witness ==
    /\ via_main /\ requested > PageCeiling
    /\ pc = "save" /\ Fetches = PageCeiling
    /\ page_results[Fetches] # <<>>

\* C3 as stated: when the write of one record of a batch of n fails, the
\* other n - 1 records are in the store
C3_Original ==
    last_batch.fault = "write" => Len(rows) = last_batch.before + last_batch.n - 1

\* C3 amended: the batch is one transaction: when the write of one record
\* fails the batch stops there and is rolled back, so no record of the batch
\* is in the store and count() is what it was before the call
C3_BatchIsAtomic ==
    last_batch.fault \in {"write", "commit", "connect"}
        => Len(rows) = last_batch.before

C3_Witness ==
    /\ pc = "count"
    /\ last_batch.fault = "write" /\ last_batch.n >= 2 /\ last_batch.at = 2
    /\ Len(rows) = last_batch.before

\* C4: the count insert_batch returns is the number of rows it added: the
\* batch size without a fault, zero when the transaction does not commit
C4_InsertedCountIsRowsAdded ==
    last_batch.n > 0 =>
        /\ last_batch.ret = Len(rows) - last_batch.before
        /\ last_batch.fault = "none" => last_batch.ret = last_batch.n
        /\ last_batch.fault = "commit" => last_batch.ret = 0

PersistenceFault == last_batch.fault # "none" \/ count_fault

\* C5 as stated: a run that met a persistence fault ends by raising, with
\* the session closed, and returns no RunResult
C5_Original ==
    pc = "returned" /\ PersistenceFault
        => exc # "none" /\ result = <<>> /\ driver = "quit"

\* C5 amended: a persistence fault is caught and logged in the gateway and
\* never leaves run_scraper: unless the run is interrupted it returns a
\* normal RunResult (saved = the batch's counter, total_in_db = 0 after a
\* count fault) once the session is closed
C5_FaultAbsorbed ==
    pc = "returned" /\ PersistenceFault
        => /\ exc \in {"none", "KeyboardInterrupt"}
           /\ driver = "quit"
           /\ exc = "none"
                => /\ result # <<>>
                   /\ result[1].saved = last_batch.ret
                   /\ count_fault => result[1].total_in_db = 0

C5_Witness ==
    /\ pc = "returned" /\ exc = "none" /\ driver = "quit"
    /\ last_batch.fault = "commit" /\ count_fault
    /\ result # <<>>

\* C6: every row of the store has a non-empty title, and so has every
\* record search aggregates and hands to the gateway
C6_TitleNeverEmpty ==
    /\ \A i \in 1..Len(rows) : rows[i].title # <<>>
    /\ \A i \in 1..Len(all_products) : Truthy(Get(all_products[i], "title"))
    /\ \A i \in 1..Len(products) : Truthy(Get(products[i], "title"))

C6_Witness ==
    /\ pc = "count"
    /\ titleless_seen
    /\ last_batch.n > 0 /\ last_batch.fault = "none"
    /\ Len(rows) = last_batch.before + last_batch.n

\* C7: whenever run_scraper has given control back to its caller, by return
\* or by an exception or interrupt, the session is closed
C7_SessionClosedOnExit == pc = "returned" => driver = "quit"

C7_Witness ==
    /\ pc = "returned" /\ exc = "KeyboardInterrupt"
    /\ Fetches > 0 /\ driver = "quit"

\* C8: the delay is taken only between two page fetches: when search has
\* returned, the number of delays is the number of fetches minus one
C8_DelaysBetweenFetches ==
    SearchReturned => delays = (IF Fetches = 0 THEN 0 ELSE Fetches - 1)

\* the containers of the page scrape_page got through before a fault
Reached ==
    IF page.fault.kind = "none" THEN Len(page.containers)
    ELSE IF page.fault.kind = "timeout" THEN 0
    ELSE page.fault.after

Yielding == {i \in 1..Reached : extract_product_info(page.containers[i]) # <<>>}

NthYielding(j) == CHOOSE i \in Yielding : Cardinality({k \in Yielding : k <= i}) = j

\* C9: scrape_page never raises; a timeout gives no record; otherwise it
\* gives, in document order, the record of every container reached before a
\* page-level fault that yields one, a failing container being skipped
C9_ScrapeAbsorbsFaults ==
    scraped[1] = "done" =>
        /\ ~scraped[2].raised
        /\ page.fault.kind = "timeout" => scraped[2].products = <<>>
        /\ Len(scraped[2].products) = Cardinality(Yielding)
        /\ \A j \in 1..Len(scraped[2].products) :
             scraped[2].products[j]
                 = extract_product_info(page.containers[NthYielding(j)])[1]

C9_Witness ==
    /\ scraped[1] = "done"
    /\ page.fault.kind = "error" /\ page.fault.after = 2
    /\ page.containers = <<cRaises, cTitleOnly, cFull>>
    /\ Len(scraped[2].products) = 1

TitleCands == <<container.KzDlHZ, container.wjcEIp, container.WKTcLC,
                container.legacy4rR01T>>

Least(S) == CHOOSE i \in S : \A j \in S : i <= j

\* C10 as stated: the title is the trimmed text of the first strategy whose
\* text is non-empty, and a record is returned iff there is such a strategy
C10_Original ==
    extracted[1] = "done" /\ ~container.raises =>
        LET hits == {i \in 1..4 : TitleCands[i].found
                                   /\ GetTextStrip(TitleCands[i]) # <<>>}
        IN  /\ extracted[2] # <<>> <=> hits # {}
            /\ extracted[2] # <<>>
                 => extracted[2][1].title = GetTextStrip(TitleCands[Least(hits)])

\* C10 amended: the first strategy, in the order S1, S2, S3, S4, that matches
\* an element wins whatever its text; a record is returned iff that
\* element's trimmed text is non-empty, and its title is that text
C10_FirstMatchWins ==
    extracted[1] = "done" =>
        LET matches == {i \in 1..4 : TitleCands[i].found}
        IN  /\ extracted[2] # <<>>
                 <=> /\ ~container.raises
                     /\ matches # {}
                     /\ GetTextStrip(TitleCands[Least(matches)]) # <<>>
            /\ extracted[2] # <<>>
                 => extracted[2][1].title = GetTextStrip(TitleCands[Least(matches)])

C10_Witness ==
    /\ extracted[1] = "done" /\ ~container.raises
    /\ container.KzDlHZ = Elem(Blank) /\ container.wjcEIp = Elem(TextA)
    /\ extracted[2] = <<>>

====
